---- MODULE Spec2Model ----
(***************************************************************************)
(* Model of the nrf52-hal SPI drivers: the DMA driver Spim (spim.rs), the  *)
(* driver Spi (spi.rs) and the byte channel FullDuplex<u8> for Spim.       *)
(*                                                                         *)
(* Every driver function is written down as the list of accesses it makes  *)
(* (register writes and reads, chip-select levels, compiler fences), in    *)
(* source order; Exec applies such a list to the peripheral.  A blocking   *)
(* function is cut at its busy-wait loops, where the hardware acts.        *)
(***************************************************************************)
EXTENDS Naturals, Sequences, FiniteSets

VARIABLES
    pc,      \* position of the running driver function, "idle" between calls
    op,      \* the function running or, when idle, the one that returned last
    args,    \* the arguments of that call
    regs,    \* the peripheral's register block
    cs,      \* level of the chip-select pin
    hw,      \* what the peripheral's transfer engine is doing
    result,  \* what the last call returned
    trace,   \* the accesses of the current (or last) call, in order
    words,      \* the buffer transfer() works on, in place (until the next call)
    idx,        \* the position of transfer()'s loop in words
    tx_buffer,  \* the bytes of tx_buffer, where the engine reads them
    rx_buffer,  \* the bytes of rx_buffer, where the engine writes them
    main_pc,    \* position of the demo's main
    tests_ok,   \* main's tests_ok
    led1,       \* level of the output of Led1 (low: lit)
    led2,       \* level of the output of Led2
    led3,       \* level of the output of Led3
    led4,       \* level of the output of Led4
    failed      \* history: the tests main has found failing

\* the memory of the caller's buffers
mem == <<words, idx, tx_buffer, rx_buffer>>

\* the state of the demo's main
demo == <<main_pc, tests_ok, led1, led2, led3, led4, failed>>

vars == <<pc, op, args, regs, cs, hw, result, trace, words, idx, tx_buffer, rx_buffer,
          main_pc, tests_ok, led1, led2, led3, led4, failed>>

-----------------------------------------------------------------------------
(* Bounds of the model *)

\* buffer lengths 0..MaxSmallLen are tried beside the lengths at the limit
MaxSmallLen == 1
\* the hardware may move up to MaxShortfall bytes fewer than MAXCNT
MaxShortfall == 1
\* bytes 0..MaxWord go through the byte channel
MaxWord == 1
\* the RXD register reads b + 256*h, h in 0..MaxHigh
MaxHigh == 1
\* the largest value of the READY register the polls are tried on
MaxReady == 2

-----------------------------------------------------------------------------
(* Program constants *)

\* u8::max_value()
U8_MAX == 255
\* width of the MAXCNT field the length is cast to
MAXCNT_WIDTH == 8
\* pin levels written by set_high() / set_low()
High == 1
Low == 0
\* the bits of SHORTS that write_then_read enables
LASTTX_STARTRX == 1
LASTRX_STOP == 2
\* the mask of FullDuplex::read, 0xFF, as a modulus
BYTE_MASK == 256
\* tx_buffer.as_ptr() as u32 and rx_buffer.as_mut_ptr() as u32
TX_BUFFER == 1
RX_BUFFER == 2
\* the address argument of the Spi functions
ADDRESS == 1
\* the pins the demo hands to Spim::new
SCK_PIN == 24
MOSI_PIN == 23
MISO_PIN == 22
\* w.enable().enabled()
Enabled == 7
\* order().msb_first().cpha().leading().cpol().active_high(): all three bits 0
MODE_0 == 0
\* w.frequency().k500()
K500 == 134217728
\* the over-read character
ORC == 0
\* the demo's probe, b"Hello,echo Loopback", and its receive buffer [0; 255]
REFERENCE_LEN == 19
READBUF_LEN == 255

-----------------------------------------------------------------------------
(* Inputs *)

\* buffer lengths: short ones, and the ones around the limit of 255
Lens == (0..MaxSmallLen) \cup {U8_MAX, U8_MAX + 1}
\* the u8 values sent through the byte channel
Words == 0..MaxWord
\* what the 32-bit RXD register can read
RxdValues == {b + BYTE_MASK * h : b \in Words, h \in 0..MaxHigh}
\* an event register reads 0 (not generated) or 1 (generated)
EventValues == {0, 1}
\* the lengths of the probe and of the receive buffer in the loopback test
ProbeLens == {0, 1, REFERENCE_LEN}
ReadLens == {0, 1, REFERENCE_LEN, READBUF_LEN}
\* a probe of n non-zero bytes
Probe(n, seed) == [i \in 1..n |-> 1 + ((seed + i) % U8_MAX)]
\* what the receive buffer is filled with before the call
ReadFill == {0, U8_MAX}

-----------------------------------------------------------------------------
(* The peripheral *)

TaskRegs == {"tasks_start", "tasks_starttx", "tasks_startrx", "tasks_stop"}

EventRegs == {"events_end", "events_lasttx", "events_lastrx", "events_stopped",
              "events_ready"}

RegNames == {"txd_ptr", "txd_maxcnt", "txd_amount",
             "rxd_ptr", "rxd_maxcnt", "rxd_amount",
             "shorts", "address", "txd", "rxd",
             "psel_sck", "psel_mosi", "psel_miso",
             "enable", "config", "frequency", "orc"} \cup EventRegs

\* accesses, as the driver code makes them
W(r, v) == [k |-> "w", r |-> r, v |-> v]
R(r, v) == [k |-> "r", r |-> r, v |-> v]
CS(v) == [k |-> "cs", r |-> "chip_select", v |-> v]
Fence == [k |-> "fence", r |-> "AcqRel", v |-> 0]
\* an event generated by the hardware, as the trace records it
Fired(r) == [k |-> "hw", r |-> r, v |-> 1]

\* the trace keeps with each access the chip-select level it was made under
Logged(a, level) == [k |-> a.k, r |-> a.r, v |-> a.v, cs |-> level]

\* a task register starts the engine when 1 is written to it
TaskEffect(r, v, h) ==
    IF v # 1 THEN h
    ELSE CASE r = "tasks_start" -> "spim_run"
           [] r = "tasks_starttx" -> "tx"
           [] r = "tasks_startrx" -> "rx"
           [] r = "tasks_stop" -> "stopping"

\* one access applied to the machine m = [regs, cs, hw, trace]
ExecOne(m, a) ==
    CASE a.k = "cs" ->
           [m EXCEPT !.cs = a.v, !.trace = Append(@, Logged(a, a.v))]
      [] a.k = "w" /\ a.r \in TaskRegs ->
           [m EXCEPT !.hw = TaskEffect(a.r, a.v, @),
                     !.trace = Append(@, Logged(a, m.cs))]
      [] a.k = "w" /\ a.r \notin TaskRegs ->
           [m EXCEPT !.regs[a.r] = a.v, !.trace = Append(@, Logged(a, m.cs))]
      [] OTHER ->
           [m EXCEPT !.trace = Append(@, Logged(a, m.cs))]

RECURSIVE Exec(_, _)
Exec(m, acc) ==
    IF acc = <<>> THEN m ELSE Exec(ExecOne(m, Head(acc)), Tail(acc))

\* the machine at the entry of a call (a fresh trace) and inside a call
Entry == [regs |-> regs, cs |-> cs, hw |-> hw, trace |-> <<>>]
Inside == [regs |-> regs, cs |-> cs, hw |-> hw, trace |-> trace]

\* the byte counts the engine may report for a transfer of MAXCNT = m bytes
Amounts(m) == {m - d : d \in {x \in 0..MaxShortfall : x <= m}}

-----------------------------------------------------------------------------
(* Driver code shared by the functions *)

\* a variant of the length check that lets a 256-byte buffer through
TooLong_OffByOne(len) == len > U8_MAX + 1

\* buffer.len() > u8::max_value() as usize
TooLong(len) == len > U8_MAX

\* w.maxcnt().bits(len as _): the cast to the 8-bit field
MaxCnt(len) == len % (2 ^ MAXCNT_WIDTH)

Ret(r, v) == [r |-> r, v |-> v]
Unit == 0

-----------------------------------------------------------------------------
(* Spim::new *)

\* a variant that leaves ORC at the value a mutable over-read byte would have
Spim_new_OrcSet(sck, mosi, miso) ==
    << W("psel_sck", sck),
       W("psel_mosi", mosi),
       W("psel_miso", miso),
       W("enable", Enabled),
       W("config", MODE_0),
       W("frequency", K500),
       W("orc", U8_MAX) >>

\* a variant that never enables the instance
Spim_new_NotEnabled(sck, mosi, miso) ==
    << W("psel_sck", sck),
       W("psel_mosi", mosi),
       W("psel_miso", miso),
       W("config", MODE_0),
       W("frequency", K500),
       W("orc", ORC) >>

Spim_new(sck, mosi, miso) ==
    << W("psel_sck", sck),
       W("psel_mosi", mosi),
       W("psel_miso", miso),
       W("enable", Enabled),
       W("config", MODE_0),
       W("frequency", K500),
       W("orc", ORC) >>

\* the peripheral as the reset leaves it, before Spim::new
Reset == [regs |-> [r \in RegNames |-> 0], cs |-> Low, hw |-> "idle", trace |-> <<>>]

-----------------------------------------------------------------------------
(* Spim::read *)

\* a variant that drives chip-select high before it checks the lengths
Spim_read_entry_SelectFirst(txp, txl, rxp, rxl) ==
    IF TooLong(txl) THEN [acc |-> << CS(High) >>, res |-> "TxBufferTooLong"]
    ELSE IF TooLong(rxl) THEN [acc |-> << CS(High) >>, res |-> "RxBufferTooLong"]
    ELSE [acc |-> << CS(High),
                     W("txd_ptr", txp),
                     W("txd_maxcnt", MaxCnt(txl)),
                     W("rxd_ptr", rxp),
                     W("rxd_maxcnt", MaxCnt(rxl)),
                     CS(Low),
                     W("tasks_start", 1) >>,
          res |-> "pending"]

\* the length checks and, when they pass, the accesses up to the start task
Spim_read_entry(txp, txl, rxp, rxl) ==
    IF TooLong(txl) THEN [acc |-> <<>>, res |-> "TxBufferTooLong"]
    ELSE IF TooLong(rxl) THEN [acc |-> <<>>, res |-> "RxBufferTooLong"]
    ELSE [acc |-> << CS(High),
                     W("txd_ptr", txp),
                     W("txd_maxcnt", MaxCnt(txl)),
                     W("rxd_ptr", rxp),
                     W("rxd_maxcnt", MaxCnt(rxl)),
                     CS(Low),
                     W("tasks_start", 1) >>,
          res |-> "pending"]

\* a variant that drives chip-select high only on the path that returns Ok
Spim_read_exit_DeselectOnOk(r, txl, rxl) ==
    LET done == << R("events_end", r["events_end"]),
                   W("events_end", 0),
                   R("txd_amount", r["txd_amount"]) >>
    IN  IF r["txd_amount"] # txl
        THEN [acc |-> done, res |-> "Transmit"]
        ELSE IF r["rxd_amount"] # rxl
        THEN [acc |-> done \o << R("rxd_amount", r["rxd_amount"]) >>,
              res |-> "Receive"]
        ELSE [acc |-> done \o << R("rxd_amount", r["rxd_amount"]), CS(High), Fence >>,
              res |-> "Ok"]

\* from the read of EVENTS_END that ends the loop to the return
Spim_read_exit(r, txl, rxl) ==
    LET done == << R("events_end", r["events_end"]),
                   W("events_end", 0),
                   CS(High),
                   R("txd_amount", r["txd_amount"]) >>
    IN  IF r["txd_amount"] # txl
        THEN [acc |-> done, res |-> "Transmit"]
        ELSE IF r["rxd_amount"] # rxl
        THEN [acc |-> done \o << R("rxd_amount", r["rxd_amount"]) >>,
              res |-> "Receive"]
        ELSE [acc |-> done \o << R("rxd_amount", r["rxd_amount"]), Fence >>,
              res |-> "Ok"]

SpimReadCall ==
    \E txl \in Lens, rxl \in Lens :
        LET txp == TX_BUFFER
            rxp == RX_BUFFER
            f == Spim_read_entry(txp, txl, rxp, rxl)
            m == Exec(Entry, f.acc)
        IN  /\ pc = "idle"
            /\ op' = "Spim_read"
            /\ args' = [address |-> 0, txp |-> txp, txl |-> txl,
                        rxp |-> rxp, rxl |-> rxl, word |-> 0]
            /\ regs' = m.regs /\ cs' = m.cs /\ hw' = m.hw /\ trace' = m.trace
            /\ IF f.res = "pending"
               THEN pc' = "Spim_read_wait_end" /\ result' = Ret("none", Unit)
               ELSE pc' = "idle" /\ result' = Ret(f.res, Unit)
            /\ words' = <<>> /\ idx' = 0
            /\ UNCHANGED <<tx_buffer, rx_buffer, demo>>

\* the call of the loopback test: spi.read(&mut cs, &test_vec1, &mut readbuf),
\* with the contents of the two buffers
SpimReadProbeCall ==
    \E n \in ProbeLens, m \in ReadLens, seed \in Words, fill \in ReadFill :
        LET txp == TX_BUFFER
            rxp == RX_BUFFER
            f == Spim_read_entry(txp, n, rxp, m)
            e == Exec(Entry, f.acc)
        IN  /\ pc = "idle"
            /\ op' = "Spim_read"
            /\ args' = [address |-> 0, txp |-> txp, txl |-> n,
                        rxp |-> rxp, rxl |-> m, word |-> 0]
            /\ tx_buffer' = Probe(n, seed)
            /\ rx_buffer' = [i \in 1..m |-> fill]
            /\ words' = <<>> /\ idx' = 0
            /\ UNCHANGED demo
            /\ regs' = e.regs /\ cs' = e.cs /\ hw' = e.hw /\ trace' = e.trace
            /\ IF f.res = "pending"
               THEN pc' = "Spim_read_wait_end" /\ result' = Ret("none", Unit)
               ELSE pc' = "idle" /\ result' = Ret(f.res, Unit)

\* while self.0.events_end.read().bits() == 0 {}
SpimReadSpin ==
    /\ pc = "Spim_read_wait_end"
    /\ regs["events_end"] = 0
    /\ UNCHANGED vars

SpimReadReturn ==
    /\ pc = "Spim_read_wait_end"
    /\ regs["events_end"] # 0
    /\ LET f == Spim_read_exit(regs, args.txl, args.rxl)
           m == Exec(Inside, f.acc)
       IN  /\ regs' = m.regs /\ cs' = m.cs /\ hw' = m.hw /\ trace' = m.trace
           /\ result' = Ret(f.res, Unit)
    /\ pc' = "idle"
    /\ UNCHANGED <<op, args>>
    /\ UNCHANGED <<mem, demo>>

-----------------------------------------------------------------------------
(* Spim::write *)

\* a variant that triggers the start task before it drives chip-select low
Spim_write_entry_StartFirst(txp, txl) ==
    IF TooLong(txl) THEN [acc |-> <<>>, res |-> "TxBufferTooLong"]
    ELSE [acc |-> << CS(High),
                     W("txd_ptr", txp),
                     W("txd_maxcnt", MaxCnt(txl)),
                     W("rxd_maxcnt", 0),
                     W("tasks_start", 1),
                     CS(Low) >>,
          res |-> "pending"]

\* a variant that leaves the receive byte count as the last read programmed it
Spim_write_entry_RxCountLeft(txp, txl) ==
    IF TooLong(txl) THEN [acc |-> <<>>, res |-> "TxBufferTooLong"]
    ELSE [acc |-> << CS(High),
                     W("txd_ptr", txp),
                     W("txd_maxcnt", MaxCnt(txl)),
                     CS(Low),
                     W("tasks_start", 1) >>,
          res |-> "pending"]

Spim_write_entry(txp, txl) ==
    IF TooLong(txl) THEN [acc |-> <<>>, res |-> "TxBufferTooLong"]
    ELSE [acc |-> << CS(High),
                     W("txd_ptr", txp),
                     W("txd_maxcnt", MaxCnt(txl)),
                     W("rxd_maxcnt", 0),
                     CS(Low),
                     W("tasks_start", 1) >>,
          res |-> "pending"]

\* a variant that drives chip-select high before it resets END
Spim_write_exit_DeselectEarly(r, txl) ==
    LET done == << R("events_end", r["events_end"]),
                   CS(High),
                   W("events_end", 0),
                   R("txd_amount", r["txd_amount"]) >>
    IN  IF r["txd_amount"] # txl
        THEN [acc |-> done, res |-> "Transmit"]
        ELSE [acc |-> done \o << Fence >>, res |-> "Ok"]

Spim_write_exit(r, txl) ==
    LET done == << R("events_end", r["events_end"]),
                   W("events_end", 0),
                   CS(High),
                   R("txd_amount", r["txd_amount"]) >>
    IN  IF r["txd_amount"] # txl
        THEN [acc |-> done, res |-> "Transmit"]
        ELSE [acc |-> done \o << Fence >>, res |-> "Ok"]

SpimWriteCall ==
    \E txl \in Lens :
        LET txp == TX_BUFFER
            f == Spim_write_entry(txp, txl)
            m == Exec(Entry, f.acc)
        IN  /\ pc = "idle"
            /\ op' = "Spim_write"
            /\ args' = [address |-> 0, txp |-> txp, txl |-> txl,
                        rxp |-> 0, rxl |-> 0, word |-> 0]
            /\ regs' = m.regs /\ cs' = m.cs /\ hw' = m.hw /\ trace' = m.trace
            /\ IF f.res = "pending"
               THEN pc' = "Spim_write_wait_end" /\ result' = Ret("none", Unit)
               ELSE pc' = "idle" /\ result' = Ret(f.res, Unit)
            /\ words' = <<>> /\ idx' = 0
            /\ UNCHANGED <<tx_buffer, rx_buffer, demo>>

\* while self.0.events_end.read().bits() == 0 {}
SpimWriteSpin ==
    /\ pc = "Spim_write_wait_end"
    /\ regs["events_end"] = 0
    /\ UNCHANGED vars

\* a variant whose wait gives up although END has not fired
SpimWriteReturn_GivesUp ==
    /\ pc = "Spim_write_wait_end"
    /\ LET f == Spim_write_exit(regs, args.txl)
           m == Exec(Inside, f.acc)
       IN  /\ regs' = m.regs /\ cs' = m.cs /\ hw' = m.hw /\ trace' = m.trace
           /\ result' = Ret(f.res, Unit)
    /\ pc' = "idle"
    /\ UNCHANGED <<op, args>>
    /\ UNCHANGED <<mem, demo>>

SpimWriteReturn ==
    /\ pc = "Spim_write_wait_end"
    /\ regs["events_end"] # 0
    /\ LET f == Spim_write_exit(regs, args.txl)
           m == Exec(Inside, f.acc)
       IN  /\ regs' = m.regs /\ cs' = m.cs /\ hw' = m.hw /\ trace' = m.trace
           /\ result' = Ret(f.res, Unit)
    /\ pc' = "idle"
    /\ UNCHANGED <<op, args>>
    /\ UNCHANGED <<mem, demo>>

-----------------------------------------------------------------------------
(* Spi::write *)

Spi_write_entry(address, txp, txl) ==
    IF TooLong(txl) THEN [acc |-> <<>>, res |-> "BufferTooLong"]
    ELSE [acc |-> << W("address", address),
                     W("txd_ptr", txp),
                     W("txd_maxcnt", MaxCnt(txl)),
                     W("tasks_starttx", 1) >>,
          res |-> "pending"]

\* LASTTX seen: reset it and trigger the stop task
Spi_write_stop(r) ==
    << R("events_lasttx", r["events_lasttx"]),
       W("events_lasttx", 0),
       W("tasks_stop", 1) >>

\* a variant that starts the transmission again when the amount is short
Spi_write_exit_Retry(r, txl) ==
    LET done == << R("events_stopped", r["events_stopped"]),
                   W("events_stopped", 0),
                   R("txd_amount", r["txd_amount"]) >>
    IN  IF r["txd_amount"] # txl
        THEN [acc |-> done \o << W("tasks_starttx", 1) >>, res |-> "Transmit"]
        ELSE [acc |-> done \o << Fence >>, res |-> "Ok"]

Spi_write_exit(r, txl) ==
    LET done == << R("events_stopped", r["events_stopped"]),
                   W("events_stopped", 0),
                   R("txd_amount", r["txd_amount"]) >>
    IN  IF r["txd_amount"] # txl
        THEN [acc |-> done, res |-> "Transmit"]
        ELSE [acc |-> done \o << Fence >>, res |-> "Ok"]

SpiWriteCall ==
    \E txl \in Lens :
        LET address == ADDRESS
            txp == TX_BUFFER
            f == Spi_write_entry(address, txp, txl)
            m == Exec(Entry, f.acc)
        IN  /\ pc = "idle"
            /\ op' = "Spi_write"
            /\ args' = [address |-> address, txp |-> txp, txl |-> txl,
                        rxp |-> 0, rxl |-> 0, word |-> 0]
            /\ regs' = m.regs /\ cs' = m.cs /\ hw' = m.hw /\ trace' = m.trace
            /\ IF f.res = "pending"
               THEN pc' = "Spi_write_wait_lasttx" /\ result' = Ret("none", Unit)
               ELSE pc' = "idle" /\ result' = Ret(f.res, Unit)
            /\ UNCHANGED <<mem, demo>>

\* while self.0.events_lasttx.read().bits() == 0 {}
SpiWriteSpinLastTx ==
    /\ pc = "Spi_write_wait_lasttx"
    /\ regs["events_lasttx"] = 0
    /\ UNCHANGED vars

SpiWriteStop ==
    /\ pc = "Spi_write_wait_lasttx"
    /\ regs["events_lasttx"] # 0
    /\ LET m == Exec(Inside, Spi_write_stop(regs))
       IN  regs' = m.regs /\ cs' = m.cs /\ hw' = m.hw /\ trace' = m.trace
    /\ pc' = "Spi_write_wait_stopped"
    /\ UNCHANGED <<op, args, result>>
    /\ UNCHANGED <<mem, demo>>

\* while self.0.events_stopped.read().bits() == 0 {}
SpiWriteSpinStopped ==
    /\ pc = "Spi_write_wait_stopped"
    /\ regs["events_stopped"] = 0
    /\ UNCHANGED vars

SpiWriteReturn ==
    /\ pc = "Spi_write_wait_stopped"
    /\ regs["events_stopped"] # 0
    /\ LET f == Spi_write_exit(regs, args.txl)
           m == Exec(Inside, f.acc)
       IN  /\ regs' = m.regs /\ cs' = m.cs /\ hw' = m.hw /\ trace' = m.trace
           /\ result' = Ret(f.res, Unit)
    /\ pc' = "idle"
    /\ UNCHANGED <<op, args>>
    /\ UNCHANGED <<mem, demo>>

-----------------------------------------------------------------------------
(* Spi::read *)

Spi_read_entry(address, rxp, rxl) ==
    IF TooLong(rxl) THEN [acc |-> <<>>, res |-> "BufferTooLong"]
    ELSE [acc |-> << W("address", address),
                     W("rxd_ptr", rxp),
                     W("rxd_maxcnt", MaxCnt(rxl)),
                     W("tasks_startrx", 1) >>,
          res |-> "pending"]

\* a variant that resets LASTRX but never triggers the stop task
Spi_read_stop_NoStop(r) ==
    << R("events_lastrx", r["events_lastrx"]),
       W("events_lastrx", 0) >>

\* LASTRX seen: reset it and trigger the stop task
Spi_read_stop(r) ==
    << R("events_lastrx", r["events_lastrx"]),
       W("events_lastrx", 0),
       W("tasks_stop", 1) >>

\* a variant that does not compare the receive amount
Spi_read_exit_Unchecked(r, rxl) ==
    [acc |-> << R("events_stopped", r["events_stopped"]),
                W("events_stopped", 0),
                Fence >>,
     res |-> "Ok"]

Spi_read_exit(r, rxl) ==
    LET done == << R("events_stopped", r["events_stopped"]),
                   W("events_stopped", 0),
                   R("rxd_amount", r["rxd_amount"]) >>
    IN  IF r["rxd_amount"] # rxl
        THEN [acc |-> done, res |-> "Receive"]
        ELSE [acc |-> done \o << Fence >>, res |-> "Ok"]

SpiReadCall ==
    \E rxl \in Lens :
        LET address == ADDRESS
            rxp == RX_BUFFER
            f == Spi_read_entry(address, rxp, rxl)
            m == Exec(Entry, f.acc)
        IN  /\ pc = "idle"
            /\ op' = "Spi_read"
            /\ args' = [address |-> address, txp |-> 0, txl |-> 0,
                        rxp |-> rxp, rxl |-> rxl, word |-> 0]
            /\ regs' = m.regs /\ cs' = m.cs /\ hw' = m.hw /\ trace' = m.trace
            /\ IF f.res = "pending"
               THEN pc' = "Spi_read_wait_lastrx" /\ result' = Ret("none", Unit)
               ELSE pc' = "idle" /\ result' = Ret(f.res, Unit)
            /\ UNCHANGED <<mem, demo>>

\* while self.0.events_lastrx.read().bits() == 0 {}
SpiReadSpinLastRx ==
    /\ pc = "Spi_read_wait_lastrx"
    /\ regs["events_lastrx"] = 0
    /\ UNCHANGED vars

SpiReadStop ==
    /\ pc = "Spi_read_wait_lastrx"
    /\ regs["events_lastrx"] # 0
    /\ LET m == Exec(Inside, Spi_read_stop(regs))
       IN  regs' = m.regs /\ cs' = m.cs /\ hw' = m.hw /\ trace' = m.trace
    /\ pc' = "Spi_read_wait_stopped"
    /\ UNCHANGED <<op, args, result>>
    /\ UNCHANGED <<mem, demo>>

\* while self.0.events_stopped.read().bits() == 0 {}
SpiReadSpinStopped ==
    /\ pc = "Spi_read_wait_stopped"
    /\ regs["events_stopped"] = 0
    /\ UNCHANGED vars

SpiReadReturn ==
    /\ pc = "Spi_read_wait_stopped"
    /\ regs["events_stopped"] # 0
    /\ LET f == Spi_read_exit(regs, args.rxl)
           m == Exec(Inside, f.acc)
       IN  /\ regs' = m.regs /\ cs' = m.cs /\ hw' = m.hw /\ trace' = m.trace
           /\ result' = Ret(f.res, Unit)
    /\ pc' = "idle"
    /\ UNCHANGED <<op, args>>
    /\ UNCHANGED <<mem, demo>>

-----------------------------------------------------------------------------
(* Spi::write_then_read *)

\* shorts.modify(|_r, w| w.lasttx_startrx().enabled().lastrx_stop().enabled())
ShortsEnabled(old) ==
    old + (IF old % 2 = 0 THEN LASTTX_STARTRX ELSE 0)
        + (IF (old \div 2) % 2 = 0 THEN LASTRX_STOP ELSE 0)

HasShort(shorts, bit) == (shorts \div bit) % 2 = 1

Spi_write_then_read_entry(r, address, txp, txl, rxp, rxl) ==
    IF TooLong(txl) THEN [acc |-> <<>>, res |-> "BufferTooLong"]
    ELSE IF TooLong(rxl) THEN [acc |-> <<>>, res |-> "BufferTooLong"]
    ELSE [acc |-> << W("address", address),
                     W("txd_ptr", txp),
                     W("txd_maxcnt", MaxCnt(txl)),
                     W("rxd_ptr", rxp),
                     W("rxd_maxcnt", MaxCnt(rxl)),
                     R("shorts", r["shorts"]),
                     W("shorts", ShortsEnabled(r["shorts"])),
                     W("tasks_starttx", 1) >>,
          res |-> "pending"]

\* a variant that leaves both shortcuts enabled
Spi_write_then_read_exit_ShortsLeft(r, txl, rxl) ==
    LET bad_write == r["txd_amount"] # txl
        bad_read == r["rxd_amount"] # rxl
        done == << R("events_stopped", r["events_stopped"]),
                   W("events_lasttx", 0),
                   W("events_lastrx", 0),
                   W("events_stopped", 0),
                   R("txd_amount", r["txd_amount"]),
                   R("rxd_amount", r["rxd_amount"]),
                   Fence >>
    IN  IF bad_write THEN [acc |-> done, res |-> "Transmit"]
        ELSE IF bad_read THEN [acc |-> done, res |-> "Receive"]
        ELSE [acc |-> done, res |-> "Ok"]

\* a variant that reports a bad read before a bad write
Spi_write_then_read_exit_ReadFirst(r, txl, rxl) ==
    LET bad_write == r["txd_amount"] # txl
        bad_read == r["rxd_amount"] # rxl
        done == << R("events_stopped", r["events_stopped"]),
                   W("events_lasttx", 0),
                   W("events_lastrx", 0),
                   W("events_stopped", 0),
                   W("shorts", 0),
                   R("txd_amount", r["txd_amount"]),
                   R("rxd_amount", r["rxd_amount"]),
                   Fence >>
    IN  IF bad_read THEN [acc |-> done, res |-> "Receive"]
        ELSE IF bad_write THEN [acc |-> done, res |-> "Transmit"]
        ELSE [acc |-> done, res |-> "Ok"]

\* a variant that leaves LASTTX and LASTRX as the transfer set them
Spi_write_then_read_exit_EventsLeft(r, txl, rxl) ==
    LET bad_write == r["txd_amount"] # txl
        bad_read == r["rxd_amount"] # rxl
        done == << R("events_stopped", r["events_stopped"]),
                   W("events_stopped", 0),
                   W("shorts", 0),
                   R("txd_amount", r["txd_amount"]),
                   R("rxd_amount", r["rxd_amount"]),
                   Fence >>
    IN  IF bad_write THEN [acc |-> done, res |-> "Transmit"]
        ELSE IF bad_read THEN [acc |-> done, res |-> "Receive"]
        ELSE [acc |-> done, res |-> "Ok"]

Spi_write_then_read_exit(r, txl, rxl) ==
    LET bad_write == r["txd_amount"] # txl
        bad_read == r["rxd_amount"] # rxl
        done == << R("events_stopped", r["events_stopped"]),
                   W("events_lasttx", 0),
                   W("events_lastrx", 0),
                   W("events_stopped", 0),
                   W("shorts", 0),
                   R("txd_amount", r["txd_amount"]),
                   R("rxd_amount", r["rxd_amount"]),
                   Fence >>
    IN  IF bad_write THEN [acc |-> done, res |-> "Transmit"]
        ELSE IF bad_read THEN [acc |-> done, res |-> "Receive"]
        ELSE [acc |-> done, res |-> "Ok"]

SpiWriteThenReadCall ==
    \E txl \in Lens, rxl \in Lens :
        LET address == ADDRESS
            txp == TX_BUFFER
            rxp == RX_BUFFER
            f == Spi_write_then_read_entry(regs, address, txp, txl, rxp, rxl)
            m == Exec(Entry, f.acc)
        IN  /\ pc = "idle"
            /\ op' = "Spi_write_then_read"
            /\ args' = [address |-> address, txp |-> txp, txl |-> txl,
                        rxp |-> rxp, rxl |-> rxl, word |-> 0]
            /\ regs' = m.regs /\ cs' = m.cs /\ hw' = m.hw /\ trace' = m.trace
            /\ IF f.res = "pending"
               THEN pc' = "Spi_write_then_read_wait_stopped"
                    /\ result' = Ret("none", Unit)
               ELSE pc' = "idle" /\ result' = Ret(f.res, Unit)
            /\ UNCHANGED <<mem, demo>>

\* while self.0.events_stopped.read().bits() == 0 {}
SpiWriteThenReadSpin ==
    /\ pc = "Spi_write_then_read_wait_stopped"
    /\ regs["events_stopped"] = 0
    /\ UNCHANGED vars

SpiWriteThenReadReturn ==
    /\ pc = "Spi_write_then_read_wait_stopped"
    /\ regs["events_stopped"] # 0
    /\ LET f == Spi_write_then_read_exit(regs, args.txl, args.rxl)
           m == Exec(Inside, f.acc)
       IN  /\ regs' = m.regs /\ cs' = m.cs /\ hw' = m.hw /\ trace' = m.trace
           /\ result' = Ret(f.res, Unit)
    /\ pc' = "idle"
    /\ UNCHANGED <<op, args>>
    /\ UNCHANGED <<mem, demo>>

-----------------------------------------------------------------------------
(* FullDuplex<u8> for Spim: the byte channel *)

\* a variant that writes TXD whatever READY reads
FullDuplex_send_Unguarded(r, word) ==
    [acc |-> << R("events_ready", r["events_ready"]), W("txd", word) >>,
     res |-> Ret("Ok", Unit)]

\* a variant that clears READY once it has taken the event
FullDuplex_send_ClearsReady(r, word) ==
    IF r["events_ready"] = 0
    THEN [acc |-> << R("events_ready", r["events_ready"]) >>,
          res |-> Ret("WouldBlock", Unit)]
    ELSE [acc |-> << R("events_ready", r["events_ready"]),
                     W("events_ready", 0),
                     W("txd", word) >>,
          res |-> Ret("Ok", Unit)]

FullDuplex_send(r, word) ==
    IF r["events_ready"] = 0
    THEN [acc |-> << R("events_ready", r["events_ready"]) >>,
          res |-> Ret("WouldBlock", Unit)]
    ELSE [acc |-> << R("events_ready", r["events_ready"]), W("txd", word) >>,
          res |-> Ret("Ok", Unit)]

\* a variant that blocks on the value send blocks on
FullDuplex_read_SamePolarity(r) ==
    IF r["events_ready"] = 0
    THEN [acc |-> << R("events_ready", r["events_ready"]) >>,
          res |-> Ret("WouldBlock", Unit)]
    ELSE [acc |-> << R("events_ready", r["events_ready"]), R("rxd", r["rxd"]) >>,
          res |-> Ret("Ok", r["rxd"] % BYTE_MASK)]

\* a variant that returns RXD without the mask
FullDuplex_read_Unmasked(r) ==
    IF r["events_ready"] = 1
    THEN [acc |-> << R("events_ready", r["events_ready"]) >>,
          res |-> Ret("WouldBlock", Unit)]
    ELSE [acc |-> << R("events_ready", r["events_ready"]), R("rxd", r["rxd"]) >>,
          res |-> Ret("Ok", r["rxd"])]

FullDuplex_read(r) ==
    IF r["events_ready"] = 1
    THEN [acc |-> << R("events_ready", r["events_ready"]) >>,
          res |-> Ret("WouldBlock", Unit)]
    ELSE [acc |-> << R("events_ready", r["events_ready"]), R("rxd", r["rxd"]) >>,
          res |-> Ret("Ok", r["rxd"] % BYTE_MASK)]

Send ==
    \E word \in Words :
        LET f == FullDuplex_send(regs, word)
            m == Exec(Entry, f.acc)
        IN  /\ pc = "idle"
            /\ op' = "send"
            /\ args' = [address |-> 0, txp |-> 0, txl |-> 0,
                        rxp |-> 0, rxl |-> 0, word |-> word]
            /\ regs' = m.regs /\ cs' = m.cs /\ hw' = m.hw /\ trace' = m.trace
            /\ result' = f.res
            /\ pc' = "idle"
            /\ words' = <<>> /\ idx' = 0
            /\ UNCHANGED <<tx_buffer, rx_buffer, demo>>

Receive ==
    LET f == FullDuplex_read(regs)
        m == Exec(Entry, f.acc)
    IN  /\ pc = "idle"
        /\ op' = "read"
        /\ args' = [address |-> 0, txp |-> 0, txl |-> 0,
                    rxp |-> 0, rxl |-> 0, word |-> 0]
        /\ regs' = m.regs /\ cs' = m.cs /\ hw' = m.hw /\ trace' = m.trace
        /\ result' = f.res
        /\ pc' = "idle"
        /\ words' = <<>> /\ idx' = 0
        /\ UNCHANGED <<tx_buffer, rx_buffer, demo>>

-----------------------------------------------------------------------------
(* Transfer<u8> for Spim: transfer(words) *)

\* the buffers handed to transfer: none, one or two bytes
TransferLens == {0, 1, 2}
Buffers == UNION {[1..n -> Words] : n \in TransferLens}

\* *word = ...: the store into position i of the buffer
Store(i) == [k |-> "st", r |-> "words", v |-> i]

\* a variant that sends the whole buffer before it receives anything
Transfer_loop_SendAll(at, i, n) ==
    IF at = "send"
    THEN IF i < n THEN [pc |-> "transfer_send", idx |-> i + 1]
         ELSE [pc |-> "transfer_read", idx |-> 1]
    ELSE IF i < n THEN [pc |-> "transfer_read", idx |-> i + 1]
         ELSE [pc |-> "idle", idx |-> i]

\* for word in words.iter_mut() { block!(send)?; *word = block!(read)?; }
\* where the loop goes after the send (at = "send") or the receive and store
\* (at = "read") of position i of n
Transfer_loop(at, i, n) ==
    IF at = "send" THEN [pc |-> "transfer_read", idx |-> i]
    ELSE IF i < n THEN [pc |-> "transfer_send", idx |-> i + 1]
    ELSE [pc |-> "idle", idx |-> i]

TransferCall ==
    \E buffer \in Buffers :
        /\ pc = "idle"
        /\ op' = "transfer"
        /\ args' = [address |-> 0, txp |-> 0, txl |-> 0,
                    rxp |-> 0, rxl |-> 0, word |-> 0]
        /\ words' = buffer
        /\ trace' = <<>>
        /\ IF buffer = <<>>
           THEN pc' = "idle" /\ idx' = 0 /\ result' = Ret("Ok", Unit)
           ELSE pc' = "transfer_send" /\ idx' = 1 /\ result' = Ret("none", Unit)
        /\ UNCHANGED <<regs, cs, hw, tx_buffer, rx_buffer, demo>>

\* block!: send returned WouldBlock, poll again (a failed poll is not logged)
TransferSendBlocked ==
    /\ pc = "transfer_send"
    /\ FullDuplex_send(regs, words[idx]).res.r = "WouldBlock"
    /\ UNCHANGED vars

TransferSend ==
    /\ pc = "transfer_send"
    /\ LET f == FullDuplex_send(regs, words[idx])
           m == Exec(Inside, f.acc)
           to == Transfer_loop("send", idx, Len(words))
       IN  /\ f.res.r = "Ok"
           /\ regs' = m.regs /\ cs' = m.cs /\ hw' = m.hw /\ trace' = m.trace
           /\ pc' = to.pc /\ idx' = to.idx
    /\ UNCHANGED <<op, args, result, words, tx_buffer, rx_buffer, demo>>

\* block!: read returned WouldBlock, poll again (a failed poll is not logged)
TransferReadBlocked ==
    /\ pc = "transfer_read"
    /\ FullDuplex_read(regs).res.r = "WouldBlock"
    /\ UNCHANGED vars

TransferRead ==
    /\ pc = "transfer_read"
    /\ LET f == FullDuplex_read(regs)
           m == Exec(Inside, f.acc)
           to == Transfer_loop("read", idx, Len(words))
       IN  /\ f.res.r = "Ok"
           /\ regs' = m.regs /\ cs' = m.cs /\ hw' = m.hw
           /\ trace' = Append(m.trace, Logged(Store(idx), cs))
           /\ words' = [words EXCEPT ![idx] = f.res.v]
           /\ pc' = to.pc /\ idx' = to.idx
           /\ result' = IF to.pc = "idle" THEN Ret("Ok", Unit) ELSE result
    /\ UNCHANGED <<op, args, tx_buffer, rx_buffer, demo>>

-----------------------------------------------------------------------------
(* Spim::free, and Spim::new on the peripheral that was given back *)

\* free(self) -> T: the driver value is consumed, the registers stay as they are
Free ==
    /\ pc = "idle"
    /\ pc' = "released"
    /\ op' = "free"
    /\ trace' = <<>>
    /\ result' = Ret("none", Unit)
    /\ UNCHANGED <<args, regs, cs, hw>>
    /\ UNCHANGED <<mem, demo>>

New ==
    /\ pc = "released"
    /\ LET m == Exec(Entry, Spim_new(SCK_PIN, MOSI_PIN, MISO_PIN))
       IN  regs' = m.regs /\ cs' = m.cs /\ hw' = m.hw /\ trace' = m.trace
    /\ pc' = "idle"
    /\ op' = "new"
    /\ UNCHANGED <<args, result>>
    /\ UNCHANGED <<mem, demo>>

-----------------------------------------------------------------------------
(* Hardware *)

\* SPIM: END is generated once both transmitting and receiving are done
HwEnd ==
    /\ hw = "spim_run"
    /\ \E ta \in Amounts(regs["txd_maxcnt"]), ra \in Amounts(regs["rxd_maxcnt"]) :
           regs' = [regs EXCEPT !["txd_amount"] = ta, !["rxd_amount"] = ra,
                                !["events_end"] = 1]
    /\ hw' = "idle"
    /\ trace' = Append(trace, Logged(Fired("events_end"), cs))
    /\ UNCHANGED <<pc, op, args, cs, result>>
    /\ UNCHANGED <<mem, demo>>

\* LASTTX is generated at the last byte of the transmission; with the short
\* LASTTX_STARTRX enabled the reception starts at once
HwLastTx ==
    /\ hw = "tx"
    /\ \E ta \in Amounts(regs["txd_maxcnt"]) :
           regs' = [regs EXCEPT !["txd_amount"] = ta, !["events_lasttx"] = 1]
    /\ hw' = IF HasShort(regs["shorts"], LASTTX_STARTRX) THEN "rx" ELSE "tx_last"
    /\ trace' = Append(trace, Logged(Fired("events_lasttx"), cs))
    /\ UNCHANGED <<pc, op, args, cs, result>>
    /\ UNCHANGED <<mem, demo>>

\* LASTRX is generated at the last byte of the reception; with the short
\* LASTRX_STOP enabled the stop task is triggered at once
HwLastRx ==
    /\ hw = "rx"
    /\ \E ra \in Amounts(regs["rxd_maxcnt"]) :
           regs' = [regs EXCEPT !["rxd_amount"] = ra, !["events_lastrx"] = 1]
    /\ hw' = IF HasShort(regs["shorts"], LASTRX_STOP) THEN "stopping" ELSE "rx_last"
    /\ trace' = Append(trace, Logged(Fired("events_lastrx"), cs))
    /\ UNCHANGED <<pc, op, args, cs, result>>
    /\ UNCHANGED <<mem, demo>>

\* STOPPED is generated once the stop task has stopped the engine
HwStopped ==
    /\ hw = "stopping"
    /\ regs' = [regs EXCEPT !["events_stopped"] = 1]
    /\ hw' = "idle"
    /\ trace' = Append(trace, Logged(Fired("events_stopped"), cs))
    /\ UNCHANGED <<pc, op, args, cs, result>>
    /\ UNCHANGED <<mem, demo>>

\* SPIM with MOSI wired to MISO: the engine clocks out the bytes at TXD.PTR,
\* then ORC for as long as it still receives, and stores what comes back at
\* RXD.PTR, all of MAXCNT bytes each way
Clocked(i) ==
    LET src == IF regs["txd_ptr"] = TX_BUFFER THEN tx_buffer ELSE rx_buffer
    IN  IF i <= regs["txd_maxcnt"] /\ i <= Len(src) THEN src[i] ELSE regs["orc"]

HwEndLoopback ==
    /\ hw = "spim_run"
    /\ regs' = [regs EXCEPT !["txd_amount"] = regs["txd_maxcnt"],
                            !["rxd_amount"] = regs["rxd_maxcnt"],
                            !["events_end"] = 1]
    /\ rx_buffer' = IF regs["rxd_ptr"] = RX_BUFFER
                    THEN [i \in DOMAIN rx_buffer |->
                             IF i <= regs["rxd_maxcnt"] THEN Clocked(i)
                             ELSE rx_buffer[i]]
                    ELSE rx_buffer
    /\ hw' = "idle"
    /\ trace' = Append(trace, Logged(Fired("events_end"), cs))
    /\ UNCHANGED <<pc, op, args, cs, result, words, idx, tx_buffer, demo>>

\* the byte engine: READY and RXD change under the driver
HwReady ==
    /\ \E e \in EventValues, b \in RxdValues :
           /\ <<e, b>> # <<regs["events_ready"], regs["rxd"]>>
           /\ regs' = [regs EXCEPT !["events_ready"] = e, !["rxd"] = b]
    /\ UNCHANGED <<pc, op, args, cs, hw, result, trace>>
    /\ UNCHANGED <<mem, demo>>

-----------------------------------------------------------------------------
(* The demo: main runs three tests on the looped-back peripheral and shows   *)
(* the outcome on four outputs                                               *)

\* the tests of main, in order
Tests == {1, 2, 3}

\* the outcomes main tells apart for a call it makes through the spy wrapper
WriteOutcomes == {"Ok", "Err"}
TransferOutcomes == {"same", "differs"}

\* test 1: spi.read(&mut cs.degrade(), &test_vec1, &mut readbuf)
DemoTest1Call ==
    \E seed \in Words :
        LET f == Spim_read_entry(TX_BUFFER, REFERENCE_LEN, RX_BUFFER, READBUF_LEN)
            e == Exec(Entry, f.acc)
        IN  /\ main_pc = "test1"
            /\ pc = "idle"
            /\ op' = "Spim_read"
            /\ args' = [address |-> 0, txp |-> TX_BUFFER, txl |-> REFERENCE_LEN,
                        rxp |-> RX_BUFFER, rxl |-> READBUF_LEN, word |-> 0]
            /\ tx_buffer' = Probe(REFERENCE_LEN, seed)
            /\ rx_buffer' = [i \in 1..READBUF_LEN |-> 0]
            /\ words' = <<>> /\ idx' = 0
            /\ regs' = e.regs /\ cs' = e.cs /\ hw' = e.hw /\ trace' = e.trace
            /\ IF f.res = "pending"
               THEN pc' = "Spim_read_wait_end" /\ result' = Ret("none", Unit)
               ELSE pc' = "idle" /\ result' = Ret(f.res, Unit)
            /\ main_pc' = "test1_match"
            /\ UNCHANGED <<tests_ok, led1, led2, led3, led4, failed>>

\* what the arms of the match on the result of test 1 look at
Test1Passes ==
    /\ result.r = "Ok"
    /\ \A i \in 1..REFERENCE_LEN : tx_buffer[i] = rx_buffer[i]
    /\ \A i \in (REFERENCE_LEN + 1)..READBUF_LEN : rx_buffer[i] = ORC

\* the match on the result of test 1
DemoTest1Match ==
    /\ main_pc = "test1_match"
    /\ pc = "idle" /\ op = "Spim_read"
    /\ tests_ok' = (tests_ok /\ Test1Passes)
    /\ led1' = IF Test1Passes THEN led1 ELSE Low
    /\ failed' = IF Test1Passes THEN failed ELSE failed \cup {1}
    /\ main_pc' = "test2"
    /\ UNCHANGED <<pc, op, args, regs, cs, hw, result, trace, led2, led3, led4>>
    /\ UNCHANGED mem

\* test 2: eh_spi.write(reference_data), a call through the spy wrapper
DemoTest2 ==
    \E o \in WriteOutcomes :
        /\ main_pc = "test2"
        /\ tests_ok' = (tests_ok /\ o = "Ok")
        /\ led2' = IF o = "Ok" THEN led2 ELSE Low
        /\ failed' = IF o = "Ok" THEN failed ELSE failed \cup {2}
        /\ main_pc' = "test3"
        /\ UNCHANGED <<pc, op, args, regs, cs, hw, result, trace, led1, led3, led4>>
        /\ UNCHANGED mem

\* test 3: eh_spi.transfer(&mut test_vec2); transfer has no error to return
DemoTest3 ==
    \E o \in TransferOutcomes :
        /\ main_pc = "test3"
        /\ tests_ok' = (tests_ok /\ o = "same")
        /\ led3' = IF o = "same" THEN led3 ELSE Low
        /\ failed' = IF o = "same" THEN failed ELSE failed \cup {3}
        /\ main_pc' = "end"
        /\ UNCHANGED <<pc, op, args, regs, cs, hw, result, trace, led1, led2, led4>>
        /\ UNCHANGED mem

\* if tests_ok { led1.set_low(); led2.set_low(); led3.set_low(); led4.set_low(); }
DemoEnd ==
    /\ main_pc = "end"
    /\ IF tests_ok
       THEN led1' = Low /\ led2' = Low /\ led3' = Low /\ led4' = Low
       ELSE UNCHANGED <<led1, led2, led3, led4>>
    /\ main_pc' = "halt"
    /\ UNCHANGED <<pc, op, args, regs, cs, hw, result, trace, tests_ok, failed>>
    /\ UNCHANGED mem

\* loop {}
DemoLoop ==
    /\ main_pc = "halt"
    /\ UNCHANGED vars

-----------------------------------------------------------------------------
Init ==
    /\ pc = "idle"
    /\ op = "none"
    /\ args = [address |-> 0, txp |-> 0, txl |-> 0, rxp |-> 0, rxl |-> 0, word |-> 0]
    /\ regs = Exec(Reset, Spim_new(SCK_PIN, MOSI_PIN, MISO_PIN)).regs
    /\ cs \in {Low, High}
    /\ hw = "idle"
    /\ result = Ret("none", Unit)
    /\ trace = <<>>
    /\ words = <<>>
    /\ idx = 0
    /\ tx_buffer = <<>>
    /\ rx_buffer = <<>>
    /\ main_pc = "test1"
    /\ tests_ok = TRUE
    /\ led1 = High /\ led2 = High /\ led3 = High /\ led4 = High
    /\ failed = {}

\* the DMA functions of Spim and Spi, and the transfer engine
Next ==
    \/ SpimReadCall
    \/ SpimReadSpin
    \/ SpimReadReturn
    \/ SpimWriteCall
    \/ SpimWriteSpin
    \/ SpimWriteReturn
    \/ SpiWriteCall
    \/ SpiWriteSpinLastTx
    \/ SpiWriteStop
    \/ SpiWriteSpinStopped
    \/ SpiWriteReturn
    \/ SpiReadCall
    \/ SpiReadSpinLastRx
    \/ SpiReadStop
    \/ SpiReadSpinStopped
    \/ SpiReadReturn
    \/ SpiWriteThenReadCall
    \/ SpiWriteThenReadSpin
    \/ SpiWriteThenReadReturn
    \/ HwEnd
    \/ HwLastTx
    \/ HwLastRx
    \/ HwStopped

Spec == Init /\ [][Next]_vars

\* the byte channel: single polls of send and read, and the byte engine
ByteNext ==
    \/ Send
    \/ Receive
    \/ HwReady

ByteSpec == Init /\ [][ByteNext]_vars

\* transfer, polling the byte channel while the byte engine runs
TransferNext ==
    \/ TransferCall
    \/ TransferSendBlocked
    \/ TransferSend
    \/ TransferReadBlocked
    \/ TransferRead
    \/ HwReady

TransferSpec == Init /\ [][TransferNext]_vars

\* the loopback test of Spim::read: data-out wired to data-in
LoopbackNext ==
    \/ SpimReadProbeCall
    \/ SpimReadSpin
    \/ SpimReadReturn
    \/ HwEndLoopback

LoopbackSpec == Init /\ [][LoopbackNext]_vars

\* single polls of send and read on every value events_ready.read().bits()
\* can give: the comparisons of the polls are on the whole u32
ReadyValues == 0..MaxReady

PollInit ==
    /\ pc = "idle"
    /\ op = "none"
    /\ args = [address |-> 0, txp |-> 0, txl |-> 0, rxp |-> 0, rxl |-> 0, word |-> 0]
    /\ \E e \in ReadyValues, b \in RxdValues :
           regs = [Exec(Reset, Spim_new(SCK_PIN, MOSI_PIN, MISO_PIN)).regs
                       EXCEPT !["events_ready"] = e, !["rxd"] = b]
    /\ cs \in {Low, High}
    /\ hw = "idle"
    /\ result = Ret("none", Unit)
    /\ trace = <<>>
    /\ words = <<>>
    /\ idx = 0
    /\ tx_buffer = <<>>
    /\ rx_buffer = <<>>
    /\ main_pc = "test1"
    /\ tests_ok = TRUE
    /\ led1 = High /\ led2 = High /\ led3 = High /\ led4 = High
    /\ failed = {}

PollNext ==
    \/ Send
    \/ Receive

PollSpec == PollInit /\ [][PollNext]_vars

\* the demo's main: cs is built low; the echo comes back or it does not
DemoInit == Init /\ cs = Low

DemoNext ==
    \/ DemoTest1Call
    \/ SpimReadSpin
    \/ SpimReadReturn
    \/ DemoTest1Match
    \/ DemoTest2
    \/ DemoTest3
    \/ DemoEnd
    \/ DemoLoop
    \/ HwEndLoopback
    \/ HwEnd

DemoSpec == DemoInit /\ [][DemoNext]_vars

\* Spim::write called between the reads of the loopback test
WriteAfterReadNext ==
    \/ SpimReadProbeCall
    \/ SpimReadSpin
    \/ SpimReadReturn
    \/ SpimWriteCall
    \/ SpimWriteSpin
    \/ SpimWriteReturn
    \/ HwEndLoopback

WriteAfterReadSpec == Init /\ [][WriteAfterReadNext]_vars

\* everything a program can call on a Spim value, and the engines under it
ApiNext ==
    \/ SpimReadCall
    \/ SpimReadSpin
    \/ SpimReadReturn
    \/ SpimWriteCall
    \/ SpimWriteSpin
    \/ SpimWriteReturn
    \/ Send
    \/ Receive
    \/ TransferCall
    \/ TransferSendBlocked
    \/ TransferSend
    \/ TransferReadBlocked
    \/ TransferRead
    \/ Free
    \/ New
    \/ HwEnd
    \/ HwReady

ApiSpec == Init /\ [][ApiNext]_vars

-----------------------------------------------------------------------------
(* Fairness *)

\* the engine generates the events of a task it was given, and the processor
\* goes on executing a function whose busy-wait can end
HwFair ==
    /\ WF_vars(HwEnd)
    /\ WF_vars(HwLastTx)
    /\ WF_vars(HwLastRx)
    /\ WF_vars(HwStopped)

DriverFair ==
    /\ WF_vars(SpimReadReturn)
    /\ WF_vars(SpimWriteReturn)
    /\ WF_vars(SpiWriteStop)
    /\ WF_vars(SpiWriteReturn)
    /\ WF_vars(SpiReadStop)
    /\ WF_vars(SpiReadReturn)
    /\ WF_vars(SpiWriteThenReadReturn)

FairSpec == Init /\ [][Next]_vars /\ HwFair /\ DriverFair

-----------------------------------------------------------------------------
(* Vocabulary of the properties *)

SpimOps == {"Spim_read", "Spim_write"}
SpiOps == {"Spi_write", "Spi_read", "Spi_write_then_read"}
DmaOps == SpimOps \cup SpiOps

\* the buffers a function takes
UsesTx(o) == o \in {"Spim_read", "Spim_write", "Spi_write", "Spi_write_then_read"}
UsesRx(o) == o \in {"Spim_read", "Spi_read", "Spi_write_then_read"}

\* the completion events a function waits on
WaitsOn(o) ==
    CASE o \in SpimOps -> {"events_end"}
      [] o = "Spi_write" -> {"events_lasttx", "events_stopped"}
      [] o = "Spi_read" -> {"events_lastrx", "events_stopped"}
      [] o = "Spi_write_then_read" -> {"events_stopped"}
      [] OTHER -> {}

\* the DMA pointer and count registers a Spim function programs
Programs(o) ==
    IF o = "Spim_read"
    THEN {"txd_ptr", "txd_maxcnt", "rxd_ptr", "rxd_maxcnt"}
    ELSE {"txd_ptr", "txd_maxcnt", "rxd_maxcnt"}

DmaSetupRegs == {"txd_ptr", "txd_maxcnt", "rxd_ptr", "rxd_maxcnt"}

\* a call has returned
Returned(o) == pc = "idle" /\ op = o
\* the call was rejected for the length of a buffer
Rejected == result.r \in {"TxBufferTooLong", "RxBufferTooLong", "BufferTooLong"}
\* the call passed the length checks and ran to its return
Completed == result.r \in {"Ok", "Transmit", "Receive"}

\* positions of the trace
At(k, r) == {i \in DOMAIN trace : trace[i].k = k /\ trace[i].r = r}
Kind(k) == {i \in DOMAIN trace : trace[i].k = k}
StartWrites == {i \in Kind("w") : trace[i].r \in TaskRegs /\ trace[i].r # "tasks_stop"}
\* the reads that ended a busy-wait: an event register read non-zero
WaitExits == {i \in Kind("r") : trace[i].r \in EventRegs /\ trace[i].v # 0}

-----------------------------------------------------------------------------
(* C1: a DMA function given a buffer longer than 255 bytes returns the      *)
(* too-long error of that buffer's direction (TxBufferTooLong for the       *)
(* transmit buffer, RxBufferTooLong for the receive buffer) and writes no   *)
(* peripheral register; the start task is not written.                      *)
C1_TooLongRejectedPerDirection ==
    \A o \in DmaOps :
        Returned(o) =>
            /\ (UsesTx(o) /\ TooLong(args.txl)) =>
                   result.r = "TxBufferTooLong" /\ Kind("w") = {}
            /\ (UsesRx(o) /\ TooLong(args.rxl)
                    /\ ~(UsesTx(o) /\ TooLong(args.txl))) =>
                   result.r = "RxBufferTooLong" /\ Kind("w") = {}

\* the part of C1 about the registers: a rejected call has made no access
C1_RejectedTouchesNothing ==
    \A o \in DmaOps :
        Returned(o) =>
            /\ ((UsesTx(o) /\ TooLong(args.txl)) \/ (UsesRx(o) /\ TooLong(args.rxl)))
                   <=> Rejected
            /\ Rejected => trace = <<>>

C1_RejectedReached ==
    Returned("Spi_write_then_read") /\ Rejected /\ ~TooLong(args.txl)

-----------------------------------------------------------------------------
(* C2, as stated: after any call to Spim::read or Spim::write has returned, *)
(* with any outcome and from any initial level, chip-select is high.        *)
C2_ChipSelectHighAfterAnyReturn ==
    \A o \in SpimOps : Returned(o) => cs = High

(* C2, amended: after a call to Spim::read or Spim::write that returned Ok  *)
(* or an amount-mismatch error, from any initial level, chip-select is      *)
(* high; a call rejected as too long has not driven the pin.                *)
C2_ChipSelectHighAfterTransaction ==
    \A o \in SpimOps :
        /\ (Returned(o) /\ Completed) => cs = High
        /\ (Returned(o) /\ Rejected) => Kind("cs") = {}

C2_MismatchReturned ==
    Returned("Spim_read") /\ result.r = "Receive" /\ cs = High

-----------------------------------------------------------------------------
(* C3: in an accepted Spim::read or Spim::write the first access drives     *)
(* chip-select high, the DMA pointer and count registers of the function    *)
(* are all written while it is high, then it is driven low and the very     *)
(* next access writes 1 to the start task; the start task is never written  *)
(* under a high chip-select.                                                *)
C3_SetupThenSelectThenStart ==
    \A o \in SpimOps :
        (op = o /\ trace # <<>>) =>
            /\ trace[1].k = "cs" /\ trace[1].v = High
            /\ \E low \in Kind("cs") :
                   /\ trace[low].v = Low
                   /\ \A i \in Kind("cs") : i < low => trace[i].v = High
                   /\ \A r \in Programs(o) : \E i \in At("w", r) : i < low
                   /\ \A i \in Kind("w") :
                          trace[i].r \in DmaSetupRegs =>
                              i < low /\ trace[i].cs = High
                   /\ low + 1 \in At("w", "tasks_start")
                   /\ trace[low + 1].v = 1
            /\ \A i \in At("w", "tasks_start") : trace[i].cs = Low

C3_Started ==
    pc = "Spim_write_wait_end" /\ hw = "spim_run"
        /\ regs["txd_maxcnt"] = U8_MAX

-----------------------------------------------------------------------------
(* C4: in an accepted Spim::read or Spim::write chip-select is low for as   *)
(* long as the function waits for END; it is driven high only after END was *)
(* read non-zero and reset, and before any amount register is read, with    *)
(* every outcome of the amount check.                                       *)
C4_SelectedUntilEndCleared ==
    \A o \in SpimOps :
        /\ pc \in {"Spim_read_wait_end", "Spim_write_wait_end"} => cs = Low
        /\ (Returned(o) /\ Completed) =>
               \E s \in At("w", "tasks_start"), e \in At("r", "events_end"),
                  c \in At("w", "events_end"), h \in Kind("cs") :
                   /\ s < e /\ e < c /\ c < h
                   /\ trace[e].v # 0 /\ trace[c].v = 0
                   /\ trace[h].v = High
                   /\ \A i \in Kind("cs") : i > s => i >= h
                   /\ \A i \in s..(h - 1) : trace[i].cs = Low
                   /\ \A i \in At("r", "txd_amount") \cup At("r", "rxd_amount") : i > h
                   /\ At("r", "txd_amount") # {}

C4_MismatchAfterDeselect ==
    Returned("Spim_write") /\ result.r = "Transmit" /\ cs = High

-----------------------------------------------------------------------------
(* C5: a DMA function on buffers of accepted length returns Ok exactly when *)
(* every amount register it uses equals the length of its buffer; when the  *)
(* transmit amount differs it returns Transmit, when only the receive       *)
(* amount differs it returns Receive.                                       *)
TxMismatch(o) == UsesTx(o) /\ regs["txd_amount"] # args.txl
RxMismatch(o) == UsesRx(o) /\ regs["rxd_amount"] # args.rxl

C5_MismatchSurfaced ==
    \A o \in DmaOps :
        (Returned(o) /\ ~Rejected) =>
            /\ result.r = "Ok" <=> (~TxMismatch(o) /\ ~RxMismatch(o))
            /\ TxMismatch(o) => result.r = "Transmit"
            /\ (RxMismatch(o) /\ ~TxMismatch(o)) => result.r = "Receive"

C5_ReceiveMismatchReturned ==
    Returned("Spi_read") /\ result.r = "Receive"
        /\ args.rxl = U8_MAX /\ regs["rxd_amount"] = U8_MAX - 1

-----------------------------------------------------------------------------
(* C6: when the transmit amount and the receive amount both differ from the *)
(* lengths, Spim::read and Spi::write_then_read return Transmit, never      *)
(* Receive.                                                                 *)
C6_TransmitErrorFirst ==
    \A o \in {"Spim_read", "Spi_write_then_read"} :
        (Returned(o) /\ Completed
            /\ regs["txd_amount"] # args.txl /\ regs["rxd_amount"] # args.rxl) =>
            result.r = "Transmit"

C6_BothMismatch ==
    /\ Returned("Spi_write_then_read") /\ result.r = "Transmit"
    /\ regs["txd_amount"] # args.txl /\ regs["rxd_amount"] # args.rxl

-----------------------------------------------------------------------------
(* C7: every DMA function that has seen its completion event issues the     *)
(* AcqRel compiler fence after that read and before it returns, also when   *)
(* it returns Transmit or Receive.                                          *)
C7_FenceOnEveryPath ==
    \A o \in DmaOps :
        (Returned(o) /\ Completed) =>
            \E f \in Kind("fence") : \A e \in WaitExits : e < f

-----------------------------------------------------------------------------
(* C8: every completion event a DMA function waits on reads 0 when the      *)
(* function returns, and every busy-wait ends on an event the hardware      *)
(* generated during this call, after the call's start task: never on an     *)
(* event left over from an earlier call.                                    *)
C8_WaitEndsOnOwnEvent ==
    \A o \in DmaOps :
        /\ (Returned(o) /\ Completed) => \A e \in WaitsOn(o) : regs[e] = 0
        /\ op = o =>
               \A x \in WaitExits :
                   \E s \in StartWrites, g \in At("hw", trace[x].r) :
                       s < g /\ g < x

C8_LaterCallReturned ==
    /\ Returned("Spi_write") /\ result.r = "Ok"
    /\ regs["rxd_maxcnt"] # 0 /\ regs["txd_ptr"] = TX_BUFFER

-----------------------------------------------------------------------------
(* C9: send(byte) polls once: when READY reads 0 it returns WouldBlock and  *)
(* does not write TXD; otherwise it writes the byte to TXD once and returns *)
(* Ok.  It reads READY once.                                                *)
C9_SendPollsOnce ==
    Returned("send") =>
        /\ Len(trace) >= 1
        /\ trace[1] = Logged(R("events_ready", trace[1].v), cs)
        /\ At("r", "events_ready") = {1}
        /\ trace[1].v = 0 =>
               result.r = "WouldBlock" /\ Len(trace) = 1
        /\ trace[1].v # 0 =>
               /\ result.r = "Ok"
               /\ trace = << trace[1], Logged(W("txd", args.word), cs) >>
               /\ regs["txd"] = args.word

C9_ByteSent ==
    Returned("send") /\ result.r = "Ok" /\ args.word = MaxWord

-----------------------------------------------------------------------------
(* C10: read() polls once, with the polarity of send mirrored: when the     *)
(* READY bit reads set it returns WouldBlock and does not read RXD; it      *)
(* returns a byte, the low 8 bits of RXD, only when the bit reads clear.    *)
ReadyBit(v) == v % 2
C10_ReceivePollsOnce ==
    Returned("read") =>
        /\ Len(trace) >= 1
        /\ trace[1] = Logged(R("events_ready", trace[1].v), cs)
        /\ At("r", "events_ready") = {1}
        /\ ReadyBit(trace[1].v) = 1 =>
               result.r = "WouldBlock" /\ At("r", "rxd") = {}
        /\ result.r = "Ok" =>
               /\ ReadyBit(trace[1].v) = 0
               /\ At("r", "rxd") = {2} /\ Len(trace) = 2
               /\ result.v = trace[2].v % BYTE_MASK
               /\ result.v < BYTE_MASK
        /\ result.r \in {"Ok", "WouldBlock"}

C10_ByteMasked ==
    /\ Returned("read") /\ result.r = "Ok"
    /\ trace[2].v >= BYTE_MASK /\ result.v = MaxWord

-----------------------------------------------------------------------------
\* the busy-waits of the DMA functions and the event each one polls
Waits == {"Spim_read_wait_end", "Spim_write_wait_end",
          "Spi_write_wait_lasttx", "Spi_write_wait_stopped",
          "Spi_read_wait_lastrx", "Spi_read_wait_stopped",
          "Spi_write_then_read_wait_stopped"}
SpimWaits == {"Spim_read_wait_end", "Spim_write_wait_end"}
Awaited(w) ==
    CASE w \in SpimWaits -> "events_end"
      [] w = "Spi_write_wait_lasttx" -> "events_lasttx"
      [] w = "Spi_read_wait_lastrx" -> "events_lastrx"
      [] OTHER -> "events_stopped"

(* C15: no DMA function has a way out of a busy-wait other than its event:  *)
(* in a wait whose event register reads 0, every step leaves the function   *)
(* in that wait, and in a wait of Spim::read or Spim::write chip-select is  *)
(* low and stays low.                                                       *)
C15_NoWayOutOfWait ==
    [][\A w \in Waits :
           (pc = w /\ regs[Awaited(w)] = 0) =>
               /\ pc' = w
               /\ w \in SpimWaits => (cs = Low /\ cs' = Low)]_vars

C15_WaitingUnfired ==
    /\ pc = "Spim_write_wait_end" /\ regs["events_end"] = 0
    /\ hw = "spim_run" /\ cs = Low

-----------------------------------------------------------------------------
(* C18: Spi::write_then_read enables the shortcuts LASTTX->STARTRX and      *)
(* LASTRX->STOP before it writes its one start task, STARTTX; it triggers   *)
(* no other task and its only busy-wait ends on STOPPED; when it returns    *)
(* LASTTX, LASTRX and STOPPED read 0 and no shortcut is enabled, so that    *)
(* Spi::write and Spi::read always run with the shortcuts disabled: the     *)
(* engine never chains into a reception or a stop on its own there.         *)
BothShorts(v) == HasShort(v, LASTTX_STARTRX) /\ HasShort(v, LASTRX_STOP)

C18_ShortcutsScopedToCall ==
    /\ (op = "Spi_write_then_read" /\ trace # <<>>) =>
           /\ \E e \in At("w", "shorts"), s \in At("w", "tasks_starttx") :
                  /\ e < s /\ BothShorts(trace[e].v)
                  /\ \A i \in Kind("w") : trace[i].r \in TaskRegs => i = s
           /\ \A x \in WaitExits : trace[x].r = "events_stopped"
           /\ pc = "Spi_write_then_read_wait_stopped" => BothShorts(regs["shorts"])
    /\ (Returned("Spi_write_then_read") /\ Completed) =>
           /\ regs["events_lasttx"] = 0 /\ regs["events_lastrx"] = 0
           /\ regs["events_stopped"] = 0
           /\ regs["shorts"] = 0
    /\ op \in {"Spi_write", "Spi_read"} =>
           /\ regs["shorts"] = 0
           /\ op = "Spi_write" => At("hw", "events_lastrx") = {}
           /\ \A g \in At("hw", "events_stopped") :
                  \E t \in At("w", "tasks_stop") : t < g

C18_ChainedTransferReturned ==
    /\ Returned("Spi_write_then_read") /\ result.r = "Ok"
    /\ args.txl = U8_MAX /\ args.rxl = U8_MAX
    /\ At("hw", "events_lastrx") # {} /\ regs["shorts"] = 0

-----------------------------------------------------------------------------
(* C19: every accepted DMA call writes a start task exactly once, whatever  *)
(* it returns; when a call returns Transmit or Receive the engine is idle,  *)
(* every DMA event reads 0 and no shortcut is enabled, as before a first    *)
(* call, so the next call starts from the beginning of its protocol.        *)
DmaEvents == EventRegs \ {"events_ready"}

C19_StartedOnceAndLeftIdle ==
    \A o \in DmaOps :
        /\ op = o => Cardinality(StartWrites) = (IF trace = <<>> THEN 0 ELSE 1)
        /\ (Returned(o) /\ Completed) => Cardinality(StartWrites) = 1
        /\ (Returned(o) /\ result.r \in {"Transmit", "Receive"}) =>
               /\ hw = "idle"
               /\ \A e \in DmaEvents : regs[e] = 0
               /\ regs["shorts"] = 0

C19_ErrorReturned ==
    /\ Returned("Spi_write_then_read") /\ result.r = "Receive"
    /\ Cardinality(StartWrites) = 1

-----------------------------------------------------------------------------
(* C20: the value a DMA function writes to the MAXCNT register of a buffer  *)
(* is the length of that buffer, a number of 0..255 that the cast to the    *)
(* 8-bit field leaves as it is, and the amount register is compared with    *)
(* that same number: a call returns Ok only when the amount equals the      *)
(* count that was programmed.                                               *)
C20_MaxCntIsTheLength ==
    \A o \in DmaOps :
        (op = o /\ trace # <<>>) =>
            /\ UsesTx(o) =>
                   /\ At("w", "txd_maxcnt") # {}
                   /\ \A i \in At("w", "txd_maxcnt") : trace[i].v = args.txl
                   /\ args.txl \in 0..U8_MAX /\ regs["txd_maxcnt"] = args.txl
                   /\ (Returned(o) /\ result.r = "Ok") =>
                          regs["txd_amount"] = regs["txd_maxcnt"]
            /\ UsesRx(o) =>
                   /\ At("w", "rxd_maxcnt") # {}
                   /\ \A i \in At("w", "rxd_maxcnt") : trace[i].v = args.rxl
                   /\ args.rxl \in 0..U8_MAX /\ regs["rxd_maxcnt"] = args.rxl
                   /\ (Returned(o) /\ result.r = "Ok") =>
                          regs["rxd_amount"] = regs["rxd_maxcnt"]

C20_LongestBufferProgrammed ==
    /\ Returned("Spim_read") /\ result.r = "Ok"
    /\ args.txl = U8_MAX /\ regs["txd_maxcnt"] = U8_MAX
    /\ args.rxl = 0 /\ regs["rxd_maxcnt"] = 0

-----------------------------------------------------------------------------
(* C16: when the engine generates the events of every task it is given, a   *)
(* DMA function that is waiting always comes to its return, and what it     *)
(* returns is one of Ok, Transmit, Receive or a too-long error.             *)
Outcomes == {"Ok", "Transmit", "Receive",
             "TxBufferTooLong", "RxBufferTooLong", "BufferTooLong"}

C16_WaitsComeToReturn ==
    /\ (pc \in Waits) ~> (pc = "idle" /\ op \in DmaOps /\ result.r \in Outcomes)
    /\ [](\A o \in DmaOps : Returned(o) => result.r \in Outcomes)

C16_ReturnedAfterBothWaits ==
    /\ Returned("Spi_read") /\ result.r = "Ok" /\ args.rxl = U8_MAX
    /\ At("hw", "events_lastrx") # {} /\ At("hw", "events_stopped") # {}

-----------------------------------------------------------------------------
(* C11: in transfer(words) the exchanges are strictly sequential: the send  *)
(* of a position starts only when every earlier position has been sent,    *)
(* received and stored; the receive of a position follows its send; the     *)
(* byte of position i is overwritten right after the i-th receive, with the *)
(* low 8 bits of what was received, and only after the send of position i,  *)
(* which sent the byte the buffer held there; positions go up by one.       *)
Sends == At("w", "txd")
Receives == At("r", "rxd")
Stores == Kind("st")
Before(S, j) == Cardinality({i \in S : i < j})

C11_ExchangesInSequence ==
    op = "transfer" =>
        /\ \A j \in Sends :
               /\ Before(Receives, j) = Before(Sends, j)
               /\ Before(Stores, j) = Before(Sends, j)
        /\ \A j \in Receives :
               /\ Before(Sends, j) = Before(Receives, j) + 1
               /\ Before(Stores, j) = Before(Receives, j)
        /\ \A j \in Stores :
               /\ trace[j].v = Before(Stores, j) + 1
               /\ Before(Sends, j) = trace[j].v
               /\ j - 1 \in Receives
               /\ words[trace[j].v] = trace[j - 1].v % BYTE_MASK
        /\ pc = "transfer_read" =>
               \E j \in Sends :
                   /\ Before(Sends, j) + 1 = idx
                   /\ trace[j].v = words[idx]
                   /\ \A i \in Stores : trace[i].v < idx
        /\ pc = "transfer_send" => Cardinality(Stores) = idx - 1
        /\ Returned("transfer") =>
               /\ result.r = "Ok"
               /\ Cardinality(Sends) = Len(words)
               /\ Cardinality(Stores) = Len(words)

C11_TwoBytesExchanged ==
    /\ Returned("transfer") /\ Len(words) = 2 /\ Cardinality(Stores) = 2
    /\ \E j \in Sends : Before(Sends, j) = 1 /\ trace[j].v # words[2]

-----------------------------------------------------------------------------
(* C12, as stated, in the steps it needs: with the wiring looped back and   *)
(* READY raised for each exchanged byte, transfer comes to its return.  For *)
(* that, the send of the first byte must go through although nothing was    *)
(* exchanged yet (READY reads 0), and once the byte sent has come back      *)
(* (READY reads 1 and RXD holds the byte) the receive must take it.         *)
LastSent == trace[Len(trace)].v

C12_LoopbackExchangeGoesThrough ==
    /\ (pc = "transfer_send" /\ idx = 1 /\ regs["events_ready"] = 0) =>
           FullDuplex_send(regs, words[idx]).res.r = "Ok"
    /\ (pc = "transfer_read" /\ regs["events_ready"] = 1
            /\ regs["rxd"] = LastSent) =>
           FullDuplex_read(regs).res = Ret("Ok", LastSent)

(* C12, the receive alone: once the byte sent has come back, with READY     *)
(* raised and RXD holding the byte, the poll of read takes it.              *)
C12_EchoedByteIsTaken ==
    (pc = "transfer_read" /\ regs["events_ready"] = 1 /\ regs["rxd"] = LastSent) =>
        FullDuplex_read(regs).res = Ret("Ok", LastSent)

-----------------------------------------------------------------------------
(* C14, as stated: the byte channel and the DMA functions are never used on *)
(* the same peripheral one after the other without an ownership transfer    *)
(* (free, then new) between them.                                           *)
ByteOps == {"send", "read", "transfer"}

C14_InterfacesApartByOwnership ==
    [][/\ ~(op \in ByteOps /\ op' \in SpimOps)
       /\ ~(op \in SpimOps /\ op' \in ByteOps)]_vars

-----------------------------------------------------------------------------
(* C17: in every state after Spim::new, through any sequence of read,       *)
(* write, send, receive and transfer calls (and free followed by new), the  *)
(* peripheral is enabled, the mode is MSB first, leading phase, active-high *)
(* polarity, the frequency is 500 kHz, the over-read character is 0 and the *)
(* pin-select registers hold the pins given to new; no call but new writes  *)
(* any of these registers.                                                  *)
ConfigRegs == {"psel_sck", "psel_mosi", "psel_miso",
               "enable", "config", "frequency", "orc"}

C17_ConfigurationFixed ==
    /\ regs["enable"] = Enabled
    /\ regs["config"] = MODE_0
    /\ regs["frequency"] = K500
    /\ regs["orc"] = ORC
    /\ regs["psel_sck"] = SCK_PIN
    /\ regs["psel_mosi"] = MOSI_PIN
    /\ regs["psel_miso"] = MISO_PIN
    /\ op # "new" => \A i \in Kind("w") : trace[i].r \notin ConfigRegs

C17_BothInterfacesUsed ==
    /\ Returned("transfer") /\ Len(words) = 2
    /\ regs["txd_maxcnt"] = U8_MAX /\ regs["rxd_maxcnt"] = 1
    /\ regs["enable"] = Enabled /\ regs["frequency"] = K500

-----------------------------------------------------------------------------
-----------------------------------------------------------------------------
(* C22: a call of Spim::read or Spim::write that is rejected for a buffer   *)
(* longer than 255 bytes returns at once without an access to chip-select:  *)
(* the level of the pin after the call is the level before it, low or high. *)
SpimTooLong == {"TxBufferTooLong", "RxBufferTooLong"}

C22_RejectedLeavesChipSelect ==
    [][(pc = "idle" /\ op' \in SpimOps /\ result'.r \in SpimTooLong) =>
           /\ cs' = cs
           /\ pc' = "idle"
           /\ trace' = <<>>]_vars

C22_RejectedWhileLow ==
    /\ Returned("Spim_read") /\ result.r = "RxBufferTooLong"
    /\ cs = Low /\ trace = <<>>

-----------------------------------------------------------------------------
(* C21: Spim::write programs the receive byte count to 0 before it triggers *)
(* the start task; whatever an earlier Spim::read left in the receive       *)
(* pointer and count, the transaction of a write receives no byte and       *)
(* leaves the receive buffer of that read as it was.                        *)
C21_WriteReceivesNothing ==
    [][(op' = "Spim_write" /\ trace' # <<>>) =>
           /\ \E z \in At("w", "rxd_maxcnt")' :
                  /\ trace'[z].v = 0
                  /\ \A i \in At("w", "tasks_start")' : z < i
           /\ regs'["rxd_maxcnt"] = 0
           /\ rx_buffer' = rx_buffer
           /\ hw' = "idle" => regs'["rxd_amount"] = 0]_vars

C21_WrittenAfterRead ==
    /\ Returned("Spim_write") /\ result.r = "Ok"
    /\ regs["rxd_ptr"] = RX_BUFFER
    /\ regs["rxd_amount"] = 0
    /\ Len(rx_buffer) = REFERENCE_LEN
    /\ \E i \in DOMAIN rx_buffer : rx_buffer[i] # Clocked(i)

-----------------------------------------------------------------------------
(* C23: send and receive never write the READY event register.  With either *)
(* outcome the call logs no write to it and leaves its value as it was, so  *)
(* a step that changes READY is a step of the hardware and not of a call:   *)
(* a READY seen set by send is still set when send returns.                 *)
Primitives == {"send", "read"}

C23_ReadyLeftToHardware ==
    [][/\ op' \in Primitives => At("w", "events_ready")' = {}
       /\ regs'["events_ready"] # regs["events_ready"] =>
              UNCHANGED <<pc, op, args, result, trace, cs, hw>>
       /\ (op' = "send" /\ result'.r = "Ok" /\ trace' # trace) =>
              regs'["events_ready"] = regs["events_ready"]
                  /\ regs'["events_ready"] # 0]_vars

C23_ReadyStillSetAfterSend ==
    /\ Returned("send") /\ result.r = "Ok"
    /\ trace[1].v = 1 /\ regs["events_ready"] = 1
    /\ Len(trace) = 2

-----------------------------------------------------------------------------
(* C24: send and receive are never both ready.  As stated, for any value of *)
(* the READY register at least one of send(byte) and receive() returns      *)
(* WouldBlock, and exactly one of them when the register holds 0 or 1.      *)
SendReady == \A w \in Words : FullDuplex_send(regs, w).res.r = "Ok"
ReceiveReady == FullDuplex_read(regs).res.r = "Ok"

C24_NeverBothReady ==
    /\ (Returned("send") /\ result.r = "Ok") => ~ReceiveReady
    /\ (Returned("read") /\ result.r = "Ok") => ~SendReady
    /\ regs["events_ready"] \in {0, 1} => (SendReady # ReceiveReady)

(* C24, as the code has it: with READY at 0 or 1 exactly one of the two is  *)
(* ready, receive at 0 and send at 1; with any other value both are ready.  *)
(* The outcome of a call is the one the register gives, before and after.   *)
C24_OneReadyAtZeroOrOne ==
    /\ regs["events_ready"] = 0 => (~SendReady /\ ReceiveReady)
    /\ regs["events_ready"] = 1 => (SendReady /\ ~ReceiveReady)
    /\ regs["events_ready"] \notin {0, 1} => (SendReady /\ ReceiveReady)
    /\ Returned("send") => (result.r = "Ok") = SendReady
    /\ Returned("read") => (result.r = "Ok") = ReceiveReady

C24_SendWentThroughReceiveBlocks ==
    /\ Returned("send") /\ result.r = "Ok"
    /\ regs["events_ready"] = 1
    /\ FullDuplex_read(regs).res.r = "WouldBlock"

-----------------------------------------------------------------------------
(* C25: at the end of the demo's run, when all tests passed the four        *)
(* outputs Led1 to Led4 are low (lit), and when a test failed the output of *)
(* the failing test is still high (off).                                    *)
Led(k) == CASE k = 1 -> led1 [] k = 2 -> led2 [] k = 3 -> led3 [] OTHER -> led4

C25_FailingTestStaysOff ==
    main_pc = "halt" =>
        /\ failed = {} =>
               led1 = Low /\ led2 = Low /\ led3 = Low /\ led4 = Low
        /\ \A k \in failed : Led(k) = High

(* what the demo does instead: the outputs of the failing tests are the     *)
(* ones driven low, and the others stay high                                *)
C25_FailingTestLit ==
    main_pc = "halt" =>
        /\ tests_ok = (failed = {})
        /\ failed = {} =>
               led1 = Low /\ led2 = Low /\ led3 = Low /\ led4 = Low
        /\ failed # {} =>
               /\ \A k \in Tests : (Led(k) = Low) = (k \in failed)
               /\ led4 = High

C25_OnlyTest1Failed ==
    main_pc = "halt" /\ failed = {1} /\ result.r = "Ok"
====
